---- MODULE Spec2Model ----
(***************************************************************************)
(* Model of AutonomousRacingCar/Code_part1.py: the base PID controller     *)
(* (class PID) and the two-loop PIDLaneFollower built on it.               *)
(*                                                                         *)
(* Numbers.  The program computes in floating point; the model computes in *)
(* exact arithmetic on an integer grid.  The only division of the program, *)
(* (e_t - self.e)/self.dt, is taken exactly: a call is drawn only where    *)
(* the quotient is an integer, so no rounding is invented.  An optional    *)
(* value (a Python None or a number) is the empty set or a singleton.      *)
(***************************************************************************)
EXTENDS Integers, Sequences, FiniteSets, TLC

VARIABLES pid, call, ncalls, lf, vs, lfcall, nstep, twin

vars == <<pid, call, ncalls, lf, vs, lfcall, nstep, twin>>
pidvars == <<pid, call, ncalls>>
lfvars == <<lf, vs, lfcall, nstep, twin>>

(* ---- bounds of the model ---- *)
MaxCalls == 3
MaxX == 2
MaxLFCalls == 3
MaxV == 1
MaxTwinCalls == 2

(* ---- numeric helpers ---- *)
None == {}
Some(v) == {v}
IsNone(o) == o = {}
Val(o) == CHOOSE v \in o : TRUE

Abs(a) == IF a < 0 THEN -a ELSE a
minimum(a, b) == IF a <= b THEN a ELSE b
maximum(a, b) == IF a >= b THEN a ELSE b
Divides(d, a) == d # 0 /\ a % Abs(d) = 0
Quot(a, d) == IF d > 0 THEN a \div d ELSE -(a \div (-d))

(* ---- PIDParams ---- *)
PIDParams(dt, Kp, Ki, Kd, int_e_max, int_e_min, u_max, u_min, du_max, du_min, u_ref, x_ref) ==
  [dt |-> dt, Kp |-> Kp, Ki |-> Ki, Kd |-> Kd,
   int_e_max |-> int_e_max, int_e_min |-> int_e_min,
   u_max |-> u_max, u_min |-> u_min, du_max |-> du_max, du_min |-> du_min,
   u_ref |-> u_ref, x_ref |-> x_ref]

(* ---- class PID ---- *)
PID__init__not_ready(params) ==
  [dt |-> params.dt, Kp |-> params.Kp, Ki |-> params.Ki, Kd |-> params.Kd,
   int_e_max |-> params.int_e_max, int_e_min |-> params.int_e_min,
   u_max |-> params.u_max, u_min |-> params.u_min,
   du_max |-> params.du_max, du_min |-> params.du_min,
   x_ref |-> params.x_ref, u_ref |-> params.u_ref,
   u_prev |-> Some(0), e |-> 0, de |-> 0, ei |-> 0,
   initialized |-> FALSE]

PID__init__(params) ==
  [dt |-> params.dt, Kp |-> params.Kp, Ki |-> params.Ki, Kd |-> params.Kd,
   int_e_max |-> params.int_e_max, int_e_min |-> params.int_e_min,
   u_max |-> params.u_max, u_min |-> params.u_min,
   du_max |-> params.du_max, du_min |-> params.du_min,
   x_ref |-> params.x_ref, u_ref |-> params.u_ref,
   u_prev |-> Some(0), e |-> 0, de |-> 0, ei |-> 0,
   initialized |-> TRUE]

_saturate_abs_low_swapped(self, u) == minimum(u, Val(self.u_min))
_saturate_rel_low_swapped(self, du) == minimum(du, Val(self.du_min))
_saturate_rel_high_swapped(self, du) == maximum(du, Val(self.du_max))
_saturate_abs_high(self, u) == minimum(u, Val(self.u_max))
_saturate_abs_low(self, u) == maximum(u, Val(self.u_min))
_saturate_rel_high(self, du) == minimum(du, Val(self.du_max))
_saturate_rel_low(self, du) == maximum(du, Val(self.du_min))

resolve_u_prev_ignores_override(self, u_prev) ==
  IF IsNone(self.u_prev) THEN 0 ELSE Val(self.u_prev)

(* lines 188-189: the base point of the rate limit *)
resolve_u_prev(self, u_prev) ==
  IF IsNone(self.u_prev) /\ IsNone(u_prev) THEN 0
  ELSE IF IsNone(u_prev) THEN Val(self.u_prev)
  ELSE Val(u_prev)

error_ei_no_accumulation(self, e_t) == e_t * self.dt

(* lines 194-196 *)
error_e(self, x) == x - self.x_ref
error_de(self, e_t) == Quot(e_t - self.e, self.dt)
error_ei(self, e_t) == self.ei + e_t * self.dt

anti_windup_no_lower(self, ei_t) ==
  IF ei_t > self.int_e_max THEN self.int_e_max ELSE ei_t

(* lines 198-202: anti-windup *)
anti_windup(self, ei_t) ==
  IF ei_t > self.int_e_max THEN self.int_e_max
  ELSE IF ei_t < self.int_e_min THEN self.int_e_min
  ELSE ei_t

(* lines 205-209 *)
I_val(self, ei_t) == self.Ki * ei_t
control_law_positive_feedback(self, e_t, ei_t, de_t) ==
  (self.Kp * e_t + I_val(self, ei_t) + self.Kd * de_t) + self.u_ref
control_law(self, e_t, ei_t, de_t) ==
  -(self.Kp * e_t + I_val(self, ei_t) + self.Kd * de_t) + self.u_ref

(* lines 211-220 *)
rate_limit(self, u, u_prev) ==
  LET du0 == u - u_prev
      du1 == IF ~IsNone(self.du_max) THEN _saturate_rel_high(self, du0) ELSE du0
      du2 == IF ~IsNone(self.du_min) THEN _saturate_rel_low(self, du1) ELSE du1
  IN  du2 + u_prev

(* lines 222-226 *)
abs_limit(self, u) ==
  LET u1 == IF ~IsNone(self.u_max) THEN _saturate_abs_high(self, u) ELSE u
  IN  IF ~IsNone(self.u_min) THEN _saturate_abs_low(self, u1) ELSE u1

solve_saturates_first(self, x, u_prev) ==
  IF ~self.initialized
  THEN [raised |-> "RuntimeError", self |-> self, u |-> None, success |-> FALSE]
  ELSE IF self.dt = 0
  THEN [raised |-> "ZeroDivisionError", self |-> self, u |-> None, success |-> FALSE]
  ELSE
    LET base == resolve_u_prev(self, u_prev)
        e_t  == error_e(self, x)
        de_t == error_de(self, e_t)
        ei_t == anti_windup(self, error_ei(self, e_t))
        u    == rate_limit(self, abs_limit(self, control_law(self, e_t, ei_t, de_t)), base)
    IN  [raised |-> "no",
         self |-> [self EXCEPT !.e = e_t, !.de = de_t, !.ei = ei_t, !.u_prev = Some(u)],
         u |-> Some(u), success |-> TRUE]

(* PID.solve: the exception it raises, if any, else the object after the   *)
(* call and the returned pair (u, info)                                    *)
solve(self, x, u_prev) ==
  IF ~self.initialized
  THEN [raised |-> "RuntimeError", self |-> self, u |-> None, success |-> FALSE]
  ELSE IF self.dt = 0
  THEN [raised |-> "ZeroDivisionError", self |-> self, u |-> None, success |-> FALSE]
  ELSE
    LET base == resolve_u_prev(self, u_prev)
        e_t  == error_e(self, x)
        de_t == error_de(self, e_t)
        ei_t == anti_windup(self, error_ei(self, e_t))
        u    == abs_limit(self, rate_limit(self, control_law(self, e_t, ei_t, de_t), base))
    IN  [raised |-> "no",
         self |-> [self EXCEPT !.e = e_t, !.de = de_t, !.ei = ei_t, !.u_prev = Some(u)],
         u |-> Some(u), success |-> TRUE]

(* the quotient of line 195 is exact on the grid *)
Representable(self, x) ==
  self.dt = 0 \/ Divides(self.dt, error_e(self, x) - self.e)

set_x_ref_keeps_error(self, x_ref) == [self EXCEPT !.x_ref = x_ref, !.ei = 0]
clear_errors_shifts(self) == [self EXCEPT !.ei = self.de, !.de = 0]

clear_errors_keeps_derivative(self) == [self EXCEPT !.ei = 0]

set_x_ref(self, x_ref) == [self EXCEPT !.x_ref = x_ref, !.ei = 0, !.e = 0]
set_u_ref(self, u_ref) == [self EXCEPT !.u_ref = u_ref]
clear_errors(self) == [self EXCEPT !.ei = 0, !.de = 0]
set_params_copies_refs(self, params) ==
  [self EXCEPT !.dt = params.dt, !.Kp = params.Kp, !.Ki = params.Ki, !.Kd = params.Kd,
               !.int_e_max = params.int_e_max, !.int_e_min = params.int_e_min,
               !.u_max = params.u_max, !.u_min = params.u_min,
               !.du_max = params.du_max, !.du_min = params.du_min,
               !.x_ref = params.x_ref, !.u_ref = params.u_ref]
set_params(self, params) ==
  [self EXCEPT !.dt = params.dt, !.Kp = params.Kp, !.Ki = params.Ki, !.Kd = params.Kd,
               !.int_e_max = params.int_e_max, !.int_e_min = params.int_e_min,
               !.u_max = params.u_max, !.u_min = params.u_min,
               !.du_max = params.du_max, !.du_min = params.du_min]
get_refs(self) == <<self.x_ref, self.u_ref>>
get_errors(self) == <<self.e, self.de, self.ei>>

(* ---- the configurations and inputs the model draws from ---- *)
Gains == {<<1, 1, 0>>, <<2, 1, 1>>, <<-1, 0, 1>>}
IntBounds == {<<2, -2>>, <<3, 1>>}
NoLimit == <<None, None>>
AbsLimits == {NoLimit, <<Some(3), Some(-3)>>}
RateLimits == {NoLimit, <<Some(1), Some(-2)>>}
Refs == {<<0, 0>>}

ValidParams ==
  { PIDParams(dt, g[1], g[2], g[3], ib[1], ib[2], al[1], al[2], rl[1], rl[2], r[1], r[2]) :
      dt \in {1, 2}, g \in Gains, ib \in IntBounds, al \in AbsLimits,
      rl \in RateLimits, r \in Refs }

BaseParams == PIDParams(1, 1, 1, 0, 2, -2, None, None, None, None, 0, 0)
InvalidParams ==
  { [BaseParams EXCEPT !.dt = 0],
    [BaseParams EXCEPT !.dt = -1],
    [BaseParams EXCEPT !.int_e_max = -2, !.int_e_min = 2],
    [BaseParams EXCEPT !.u_max = Some(3)],
    [BaseParams EXCEPT !.u_min = Some(-3)],
    [BaseParams EXCEPT !.du_max = Some(1)],
    [BaseParams EXCEPT !.du_min = Some(-2)],
    [BaseParams EXCEPT !.u_max = Some(-3), !.u_min = Some(3)],
    [BaseParams EXCEPT !.du_max = Some(-2), !.du_min = Some(1)] }

ParamsSet == ValidParams \cup InvalidParams

NewParams ==
  { PIDParams(2, 2, 1, 1, 1, -1, Some(2), Some(-2), None, None, 0, 0),
    PIDParams(1, 1, 0, 0, 3, 1, None, None, Some(1), Some(-1), 0, 0),
    [BaseParams EXCEPT !.dt = 0] }

XVals == (-MaxX)..MaxX
UPrevArgs == {None, Some(-5)}
RefVals == {0, 1}

(* ---- the record of the last call on the PID ---- *)
Call(op, prev, x, arg, old, raised, u, success) ==
  [op |-> op, prev |-> prev, x |-> x, arg |-> arg, old |-> old, raised |-> raised, u |-> u,
   success |-> success]

(* ---- VehicleState: the fields step reads and writes; a field of the   ---- *)
(* ---- record is None until the driver fills it in (lines 99-103)        ---- *)
BodyLinearVelocity(v_long) == [v_long |-> v_long]
ParametricPose(x_tran, e_psi) == [x_tran |-> x_tran, e_psi |-> e_psi]
VehicleActuation(u_a, u_steer) == [u_a |-> u_a, u_steer |-> u_steer]
VehicleState(v, p, u) == [v |-> v, p |-> p, u |-> u]

(* ---- class PIDLaneFollower ---- *)
alpha == 5
beta == 1

PIDLaneFollower__init__(dt, steer_pid_params, speed_pid_params) ==
  LET steer == [steer_pid_params EXCEPT !.dt = dt]
      speed == [speed_pid_params EXCEPT !.dt = dt]
  IN  [dt |-> dt,
       steer_pid_params |-> steer,
       speed_pid_params |-> speed,
       steer_pid |-> set_x_ref(PID__init__(steer), 0),
       speed_pid |-> PID__init__(speed),
       lat_ref |-> steer.x_ref,
       requires_env_state |-> FALSE]

reset(self) ==
  [self EXCEPT !.steer_pid = PID__init__(self.steer_pid_params),
               !.speed_pid = PID__init__(self.speed_pid_params)]

(* line 376: the signal the steering loop is fed *)
steer_signal(self, p) == alpha * (p.x_tran - self.lat_ref) + beta * p.e_psi

(* line 377: the returned array *)
step_return_swapped(u) == <<u.u_steer, u.u_a>>
step_return(u) == <<u.u_a, u.u_steer>>

step_defaults_missing_pose(self, vehicle_state) ==
  LET Raise(exc, lf1, vs1) == [raised |-> exc, self |-> lf1, vs |-> vs1, ret |-> None]
  IN
  IF IsNone(vehicle_state.v) THEN Raise("AttributeError", self, vehicle_state)
  ELSE
  LET v  == Val(vehicle_state.v).v_long
      r1 == solve(self.speed_pid, v, None)
      s1 == [self EXCEPT !.speed_pid = r1.self]
  IN
  IF r1.raised # "no" THEN Raise(r1.raised, self, vehicle_state)
  ELSE IF IsNone(vehicle_state.u) THEN Raise("AttributeError", s1, vehicle_state)
  ELSE
  LET vs1 == [vehicle_state EXCEPT !.u = Some([Val(vehicle_state.u) EXCEPT !.u_a = Val(r1.u)])]
      p   == IF IsNone(vehicle_state.p) THEN [x_tran |-> self.lat_ref, e_psi |-> 0]
             ELSE Val(vehicle_state.p)
      r2  == solve(self.steer_pid, steer_signal(self, p), None)
      s2  == [s1 EXCEPT !.steer_pid = r2.self]
      vs2 == [vs1 EXCEPT !.u = Some([Val(vs1.u) EXCEPT !.u_steer = Val(r2.u)])]
  IN
  IF r2.raised # "no" THEN Raise(r2.raised, s1, vs1)
  ELSE [raised |-> "no", self |-> s2, vs |-> vs2, ret |-> Some(step_return(Val(vs2.u)))]

step_shares_one_loop(self, vehicle_state) ==
  LET Raise(exc, lf1, vs1) == [raised |-> exc, self |-> lf1, vs |-> vs1, ret |-> None]
  IN
  IF IsNone(vehicle_state.v) THEN Raise("AttributeError", self, vehicle_state)
  ELSE
  LET v  == Val(vehicle_state.v).v_long
      r1 == solve(self.speed_pid, v, None)
      s1 == [self EXCEPT !.speed_pid = r1.self]
  IN
  IF r1.raised # "no" THEN Raise(r1.raised, self, vehicle_state)
  ELSE IF IsNone(vehicle_state.u) THEN Raise("AttributeError", s1, vehicle_state)
  ELSE
  LET vs1 == [vehicle_state EXCEPT !.u = Some([Val(vehicle_state.u) EXCEPT !.u_a = Val(r1.u)])]
  IN
  IF IsNone(vehicle_state.p) THEN Raise("AttributeError", s1, vs1)
  ELSE
  LET r2  == solve(s1.speed_pid, steer_signal(self, Val(vehicle_state.p)), None)
      s2  == [s1 EXCEPT !.speed_pid = r2.self]
      vs2 == [vs1 EXCEPT !.u = Some([Val(vs1.u) EXCEPT !.u_steer = Val(r2.u)])]
  IN
  IF r2.raised # "no" THEN Raise(r2.raised, s1, vs1)
  ELSE [raised |-> "no", self |-> s2, vs |-> vs2, ret |-> Some(step_return(Val(vs2.u)))]

(* PIDLaneFollower.step: the exception it raises, if any, the controller   *)
(* and the state record after the call, and the returned array             *)
step(self, vehicle_state) ==
  LET Raise(exc, lf1, vs1) == [raised |-> exc, self |-> lf1, vs |-> vs1, ret |-> None]
  IN
  IF IsNone(vehicle_state.v) THEN Raise("AttributeError", self, vehicle_state)
  ELSE
  LET v  == Val(vehicle_state.v).v_long
      r1 == solve(self.speed_pid, v, None)
      s1 == [self EXCEPT !.speed_pid = r1.self]
  IN
  IF r1.raised # "no" THEN Raise(r1.raised, self, vehicle_state)
  ELSE IF IsNone(vehicle_state.u) THEN Raise("AttributeError", s1, vehicle_state)
  ELSE
  LET vs1 == [vehicle_state EXCEPT !.u = Some([Val(vehicle_state.u) EXCEPT !.u_a = Val(r1.u)])]
  IN
  IF IsNone(vehicle_state.p) THEN Raise("AttributeError", s1, vs1)
  ELSE
  LET r2  == solve(self.steer_pid, steer_signal(self, Val(vehicle_state.p)), None)
      s2  == [s1 EXCEPT !.steer_pid = r2.self]
      vs2 == [vs1 EXCEPT !.u = Some([Val(vs1.u) EXCEPT !.u_steer = Val(r2.u)])]
  IN
  IF r2.raised # "no" THEN Raise(r2.raised, s1, vs1)
  ELSE [raised |-> "no", self |-> s2, vs |-> vs2, ret |-> Some(step_return(Val(vs2.u)))]

(* the quotients of both loops are exact on the grid *)
RepresentableState(self, vehicle_state) ==
  /\ ~IsNone(vehicle_state.v) =>
       Representable(self.speed_pid, Val(vehicle_state.v).v_long)
  /\ ~IsNone(vehicle_state.p) =>
       Representable(self.steer_pid, steer_signal(self, Val(vehicle_state.p)))

(* ---- the controllers and vehicle states the model draws from ---- *)
SteerParams ==
  { PIDParams(1, 1, 1, 0, 2, -2, Some(3), Some(-3), Some(4), Some(-4), 0, lat) : lat \in {0, 1} }
SpeedParams ==
  { PIDParams(1, 1, 0, 0, 2, -2, Some(2), Some(-2), Some(3), Some(-3), 0, 1),
    PIDParams(1, 2, 1, 1, 2, -2, None, None, None, None, 0, 2),
    PIDParams(1, -1, 0, 0, 2, -2, Some(2), Some(-2), Some(3), Some(-3), 0, 1) }
LFDts == {0, 1, 2}

WellFormedStates(u) ==
  { VehicleState(Some(BodyLinearVelocity(v)), Some(ParametricPose(x_tran, e_psi)), u) :
      v \in 0..MaxV, x_tran \in {0, 1}, e_psi \in {-1, 0} }
MalformedStates(u) ==
  { VehicleState(None, Some(ParametricPose(0, 0)), u),
    VehicleState(Some(BodyLinearVelocity(0)), None, u),
    VehicleState(Some(BodyLinearVelocity(0)), Some(ParametricPose(0, 0)), None) }
NoActuation == Some(VehicleActuation(0, 0))

(* ---- the record of the last call on the lane follower ---- *)
LFCall(op, prev, raised, ret) == [op |-> op, prev |-> prev, raised |-> raised, ret |-> ret]

(* ---- the lane follower while the PID is driven alone, and the reverse ---- *)
NoLF == PIDLaneFollower__init__(1, BaseParams, BaseParams)
NoVS == VehicleState(None, None, None)
NoLFCall == LFCall("none", "none", "no", None)
NoPID == PID__init__(BaseParams)
NoTwin == [same |-> "none", lf |-> NoLF, vs |-> NoVS, raised |-> "no", ret |-> None]
NoCall == Call("none", "none", 0, None, None, "no", None, FALSE)

InitPID ==
  /\ \E params \in ParamsSet :
       /\ pid = PID__init__(params)
       /\ call = Call("__init__", "none", 0, None, None, "no", None, FALSE)
  /\ ncalls = 0

Solve ==
  /\ ncalls < MaxCalls
  /\ \E x \in XVals, u_prev \in UPrevArgs :
       /\ Representable(pid, x)
       /\ LET r == solve(pid, x, u_prev)
          IN  /\ pid' = r.self
              /\ call' = Call("solve", call.op, x, u_prev, pid.u_prev, r.raised, r.u, r.success)
  /\ ncalls' = ncalls + 1

SetXRef ==
  /\ \E x_ref \in RefVals :
       /\ pid' = set_x_ref(pid, x_ref)
       /\ call' = Call("set_x_ref", call.op, x_ref, None, pid.u_prev, "no", None, FALSE)
  /\ ncalls < MaxCalls
  /\ ncalls' = ncalls + 1

SetURef ==
  /\ \E u_ref \in RefVals :
       /\ pid' = set_u_ref(pid, u_ref)
       /\ call' = Call("set_u_ref", call.op, u_ref, None, pid.u_prev, "no", None, FALSE)
  /\ ncalls < MaxCalls
  /\ ncalls' = ncalls + 1

ClearErrors ==
  /\ pid' = clear_errors(pid)
  /\ call' = Call("clear_errors", call.op, 0, None, pid.u_prev, "no", None, FALSE)
  /\ ncalls < MaxCalls
  /\ ncalls' = ncalls + 1

SetParams ==
  /\ \E params \in NewParams :
       /\ pid' = set_params(pid, params)
       /\ call' = Call("set_params", call.op, 0, None, pid.u_prev, "no", None, FALSE)
  /\ ncalls < MaxCalls
  /\ ncalls' = ncalls + 1

Init ==
  /\ InitPID
  /\ lf = NoLF /\ vs = NoVS /\ lfcall = NoLFCall /\ nstep = 0
  /\ twin = NoTwin

Next ==
  \/ Solve /\ UNCHANGED lfvars
  \/ SetXRef /\ UNCHANGED lfvars
  \/ SetURef /\ UNCHANGED lfvars
  \/ ClearErrors /\ UNCHANGED lfvars
  \/ SetParams /\ UNCHANGED lfvars

Spec == Init /\ [][Next]_vars

(* ---- the lane follower driven by the control loop (lines 435-472) ---- *)
InitLF ==
  /\ \E dt \in LFDts, steer \in SteerParams, speed \in SpeedParams :
       lf = PIDLaneFollower__init__(dt, steer, speed)
  /\ vs = VehicleState(None, None, NoActuation)
  /\ lfcall = LFCall("__init__", "none", "no", None)
  /\ nstep = 0
  /\ pid = NoPID /\ call = NoCall /\ ncalls = 0
  /\ twin = NoTwin

(* the driver hands over the record it applied the last commands from *)
ActuationSlot == IF IsNone(vs.u) THEN NoActuation ELSE vs.u

Step ==
  /\ nstep < MaxLFCalls
  /\ \E s \in WellFormedStates(ActuationSlot) \cup MalformedStates(ActuationSlot) :
       /\ RepresentableState(lf, s)
       /\ LET r == step(lf, s)
          IN  /\ lf' = r.self
              /\ vs' = r.vs
              /\ lfcall' = LFCall("step", lfcall.op, r.raised, r.ret)
  /\ nstep' = nstep + 1

Reset ==
  /\ nstep < MaxLFCalls
  /\ lf' = reset(lf)
  /\ lfcall' = LFCall("reset", lfcall.op, "no", None)
  /\ nstep' = nstep + 1
  /\ UNCHANGED vs

NextLF ==
  \/ Step /\ UNCHANGED <<pidvars, twin>>
  \/ Reset /\ UNCHANGED <<pidvars, twin>>

SpecLF == InitLF /\ [][NextLF]_vars

(* ---- the lane follower with a caller that also reaches into its two   ---- *)
(* ---- public loop objects (self.steer_pid, self.speed_pid)              ---- *)
LoopNames == {"steer_pid", "speed_pid"}
Loop(self, name) == IF name = "steer_pid" THEN self.steer_pid ELSE self.speed_pid
WithLoop(self, name, loop) ==
  IF name = "steer_pid" THEN [self EXCEPT !.steer_pid = loop]
  ELSE [self EXCEPT !.speed_pid = loop]
SetXRefOp(name) == IF name = "steer_pid" THEN "steer_pid.set_x_ref" ELSE "speed_pid.set_x_ref"
ClearErrorsOp(name) ==
  IF name = "steer_pid" THEN "steer_pid.clear_errors" ELSE "speed_pid.clear_errors"

LoopSetXRef ==
  /\ nstep < MaxLFCalls
  /\ \E name \in LoopNames, x_ref \in RefVals :
       /\ lf' = WithLoop(lf, name, set_x_ref(Loop(lf, name), x_ref))
       /\ lfcall' = LFCall(SetXRefOp(name), lfcall.op, "no", None)
  /\ nstep' = nstep + 1
  /\ UNCHANGED vs

LoopClearErrors ==
  /\ nstep < MaxLFCalls
  /\ \E name \in LoopNames :
       /\ lf' = WithLoop(lf, name, clear_errors(Loop(lf, name)))
       /\ lfcall' = LFCall(ClearErrorsOp(name), lfcall.op, "no", None)
  /\ nstep' = nstep + 1
  /\ UNCHANGED vs

NextLoops ==
  \/ Step /\ UNCHANGED <<pidvars, twin>>
  \/ Reset /\ UNCHANGED <<pidvars, twin>>
  \/ LoopSetXRef /\ UNCHANGED <<pidvars, twin>>
  \/ LoopClearErrors /\ UNCHANGED <<pidvars, twin>>

SpecLoops == InitLF /\ [][NextLoops]_vars

(* ---- two runs of one lane follower, side by side: the control loop is ---- *)
(* ---- run twice on the same controller parameters, with state records  ---- *)
(* ---- that agree on the velocity, or that agree on the pose            ---- *)
Agreements == {"velocity", "pose"}
TwinPoses == { <<0, 0>>, <<1, 0>>, <<0, -1>> }
TwinStates(u) ==
  { VehicleState(Some(BodyLinearVelocity(v)), Some(ParametricPose(p[1], p[2])), u) :
      v \in 0..MaxV, p \in TwinPoses }

InitTwin ==
  /\ \E dt \in LFDts, steer \in SteerParams, speed \in SpeedParams, same \in Agreements :
       /\ lf = PIDLaneFollower__init__(dt, steer, speed)
       /\ twin = [same |-> same, lf |-> PIDLaneFollower__init__(dt, steer, speed),
                  vs |-> VehicleState(None, None, NoActuation), raised |-> "no", ret |-> None]
  /\ vs = VehicleState(None, None, NoActuation)
  /\ lfcall = LFCall("__init__", "none", "no", None)
  /\ nstep = 0
  /\ pid = NoPID /\ call = NoCall /\ ncalls = 0

TwinStep ==
  /\ nstep < MaxTwinCalls
  /\ \E s1 \in TwinStates(vs.u), s2 \in TwinStates(twin.vs.u) :
       /\ twin.same = "velocity" => s1.v = s2.v
       /\ twin.same = "pose" => s1.p = s2.p
       /\ RepresentableState(lf, s1)
       /\ RepresentableState(twin.lf, s2)
       /\ LET r1 == step(lf, s1)
              r2 == step(twin.lf, s2)
          IN  /\ lf' = r1.self
              /\ vs' = r1.vs
              /\ lfcall' = LFCall("step", lfcall.op, r1.raised, r1.ret)
              /\ twin' = [twin EXCEPT !.lf = r2.self, !.vs = r2.vs,
                                      !.raised = r2.raised, !.ret = r2.ret]
  /\ nstep' = nstep + 1

TwinReset ==
  /\ nstep < MaxTwinCalls
  /\ lf' = reset(lf)
  /\ lfcall' = LFCall("reset", lfcall.op, "no", None)
  /\ twin' = [twin EXCEPT !.lf = reset(twin.lf), !.raised = "no", !.ret = None]
  /\ nstep' = nstep + 1
  /\ UNCHANGED vs

NextTwin ==
  \/ TwinStep /\ UNCHANGED pidvars
  \/ TwinReset /\ UNCHANGED pidvars

SpecTwin == InitTwin /\ [][NextTwin]_vars

(* ======================= properties of class PID ======================= *)

(* the configuration the specification calls valid (spec.md, 4.1) *)
ValidConfig(c) ==
  /\ c.dt > 0
  /\ c.int_e_min <= c.int_e_max
  /\ (IsNone(c.u_min) <=> IsNone(c.u_max))
  /\ (IsNone(c.du_min) <=> IsNone(c.du_max))

Returned == call.op = "solve" /\ call.raised = "no"

(* C1: with int_e_min <= int_e_max, the accumulator stored by a solve call *)
(* lies within [int_e_min, int_e_max], whatever calls came before it.      *)
C1_IntegralWithinClamp ==
  (Returned /\ pid.int_e_min <= pid.int_e_max)
    => (pid.int_e_min <= pid.ei /\ pid.ei <= pid.int_e_max)

(* a windup: the error kept pushing and the accumulator sits on a bound *)
C1_Witness ==
  /\ Returned /\ call.prev = "solve" /\ ncalls >= 3
  /\ pid.int_e_min < pid.int_e_max
  /\ pid.e * pid.dt < 0
  /\ pid.ei = pid.int_e_min

(* C2: with both absolute bounds set and u_min <= u_max, the value solve   *)
(* returns lies within [u_min, u_max].                                     *)
C2_OutputWithinAbsoluteBounds ==
  (Returned /\ ~IsNone(pid.u_max) /\ ~IsNone(pid.u_min) /\ Val(pid.u_min) <= Val(pid.u_max))
    => (Val(pid.u_min) <= Val(call.u) /\ Val(call.u) <= Val(pid.u_max))

(* a saturated output, with rate limits set and an overriding base point *)
C2_Witness ==
  /\ Returned /\ ~IsNone(pid.u_max) /\ ~IsNone(pid.u_min)
  /\ Val(pid.u_min) < Val(pid.u_max)
  /\ ~IsNone(pid.du_max) /\ ~IsNone(call.arg)
  /\ call.u = pid.u_min

(* the base point of a solve call: the override if one was supplied, else  *)
(* the output stored before the call                                       *)
BasePoint == IF ~IsNone(call.arg) THEN Val(call.arg) ELSE Val(call.old)

(* C3: with both rate bounds set and no absolute bound, the returned       *)
(* output differs from the base point of the call by at most               *)
(* max(|du_max|, |du_min|).                                                *)
C3_RateBounded ==
  (Returned /\ ~IsNone(pid.du_max) /\ ~IsNone(pid.du_min)
            /\ IsNone(pid.u_max) /\ IsNone(pid.u_min))
    => Abs(Val(call.u) - BasePoint) <= maximum(Abs(Val(pid.du_max)), Abs(Val(pid.du_min)))

(* a rate-limited step down from an overriding base point *)
C3_Witness ==
  /\ Returned /\ ~IsNone(pid.du_max) /\ ~IsNone(pid.du_min)
  /\ IsNone(pid.u_max) /\ IsNone(pid.u_min)
  /\ ~IsNone(call.arg)
  /\ Val(call.u) - BasePoint = Val(pid.du_min)
  /\ Val(pid.du_min) < 0

(* C5: construction with an invalid configuration fails with a             *)
(* configuration error, so no such PID reaches solve.                      *)
C5_InvalidConfigurationRejected ==
  /\ (call.op = "__init__" /\ ~ValidConfig(pid)) => call.raised = "ConfigurationError"
  /\ (call.op = "solve" /\ call.prev = "__init__") => ValidConfig(pid)

(* C6: set_x_ref(r) followed at once by solve(r) stores a zero error and a *)
(* zero derivative, and a zero accumulator when 0 is within the clamp.     *)
C6_NoSpikeAfterSetXRef ==
  (Returned /\ call.prev = "set_x_ref" /\ call.x = pid.x_ref)
    => /\ pid.e = 0
       /\ pid.de = 0
       /\ (pid.int_e_min <= 0 /\ 0 <= pid.int_e_max) => pid.ei = 0

(* the case after a history: an earlier solve left a nonzero output *)
C6_Witness ==
  /\ Returned /\ call.prev = "set_x_ref" /\ call.x = pid.x_ref
  /\ pid.x_ref # 0
  /\ call.old # Some(0)
  /\ pid.e = 0 /\ pid.de = 0 /\ pid.ei = 0

(* C9: clear_errors called right after clear_errors changes nothing.       *)
C9_ClearErrorsIdempotent ==
  [][(call.op = "clear_errors" /\ call'.op = "clear_errors") => pid' = pid]_vars

(* two clear_errors in a row after a solve that left a nonzero error *)
C9_Witness ==
  /\ call.op = "clear_errors" /\ call.prev = "clear_errors"
  /\ pid.e # 0 /\ pid.u_prev # Some(0)

(* C10: while the error keeps its sign and the accumulator is zero or on   *)
(* the side the error pushes to, each solve makes the magnitude of the     *)
(* accumulator (and of Ki*ei when Ki # 0) strictly larger or leaves the    *)
(* accumulator on a clamp bound; once on the bound the error pushes to, it *)
(* stays there.                                                            *)
Push == pid'.e * pid.dt
C10_IntegralGrowsUntilClamp ==
  [][(call'.op = "solve" /\ call'.raised = "no" /\ pid.int_e_min <= pid.int_e_max
        /\ pid'.e # 0)
     => /\ (pid.ei = 0 \/ pid.ei * Push > 0)
            => \/ /\ Abs(pid'.ei) > Abs(pid.ei)
                  /\ pid.Ki # 0 => Abs(I_val(pid, pid'.ei)) > Abs(I_val(pid, pid.ei))
               \/ pid'.ei \in {pid.int_e_min, pid.int_e_max}
        /\ (pid.ei = pid.int_e_max /\ Push > 0) => pid'.ei = pid.ei
        /\ (pid.ei = pid.int_e_min /\ Push < 0) => pid'.ei = pid.ei]_vars

(* a constant nonzero error on successive solves (de = 0) with the         *)
(* accumulator arrived on its upper bound                                  *)
C10_Witness ==
  /\ Returned /\ call.prev = "solve" /\ ncalls >= 3
  /\ pid.e # 0 /\ pid.de = 0 /\ pid.Ki # 0
  /\ pid.int_e_min < 0 /\ pid.ei = pid.int_e_max

(* ================== properties of class PIDLaneFollower ================= *)

StepReturned == lfcall.op = "step" /\ lfcall.raised = "no"

(* the controller a new construction with the same parameters gives *)
NewlyConstructed == PIDLaneFollower__init__(lf.dt, lf.steer_pid_params, lf.speed_pid_params)

(* C4: a step made right after reset() has returned what the same step on  *)
(* a newly constructed controller with the same parameters returns.        *)
C4_ResetEqualsNewInstance ==
  (StepReturned /\ lfcall.prev = "reset")
    => lfcall.ret = step(NewlyConstructed, vs).ret

(* C7: the first step of a new controller with a positive target speed,    *)
(* lateral offset reference 0, zero output biases, speed Kp > 0, Ki >= 0,  *)
(* Kd >= 0 and limits that strictly contain 0, on a state with velocity 0, *)
(* lateral deviation 0 and heading error 0, commands a strictly positive   *)
(* acceleration and a zero steering.                                       *)
LimitsContainZero(c) ==
  /\ c.int_e_min < 0 /\ 0 < c.int_e_max
  /\ (IsNone(c.u_min) /\ IsNone(c.u_max)) \/ (~IsNone(c.u_min) /\ ~IsNone(c.u_max) /\ Val(c.u_min) < 0 /\ 0 < Val(c.u_max))
  /\ (IsNone(c.du_min) /\ IsNone(c.du_max)) \/ (~IsNone(c.du_min) /\ ~IsNone(c.du_max) /\ Val(c.du_min) < 0 /\ 0 < Val(c.du_max))
AtRest ==
  /\ ~IsNone(vs.v) /\ Val(vs.v).v_long = 0
  /\ ~IsNone(vs.p) /\ Val(vs.p).x_tran = 0 /\ Val(vs.p).e_psi = 0
C7_Premise ==
  /\ StepReturned /\ lfcall.prev = "__init__"
  /\ AtRest
  /\ lf.speed_pid.x_ref > 0
  /\ lf.lat_ref = 0
  /\ lf.speed_pid.u_ref = 0 /\ lf.steer_pid.u_ref = 0
  /\ lf.speed_pid.Kp > 0 /\ lf.speed_pid.Ki >= 0 /\ lf.speed_pid.Kd >= 0
  /\ LimitsContainZero(lf.speed_pid) /\ LimitsContainZero(lf.steer_pid)
C7_FirstStepFromRest ==
  C7_Premise => (Val(lfcall.ret)[1] > 0 /\ Val(lfcall.ret)[2] = 0)

(* the first step from rest, with integral and derivative action and a    *)
(* saturating speed loop                                                   *)
C7_Witness ==
  /\ C7_Premise
  /\ lf.speed_pid.x_ref = 1
  /\ ~IsNone(lf.speed_pid.u_max)
  /\ Val(lfcall.ret)[1] > 0 /\ Val(lfcall.ret)[2] = 0

(* C8: a step that returns has written the output of the speed loop into   *)
(* u.u_a and the output of the steering loop into u.u_steer, and returns   *)
(* the pair [u.u_a, u.u_steer] in that order.                              *)
C8_StepWritesAndReturns ==
  StepReturned
    => /\ Val(vs.u).u_a = Val(lf.speed_pid.u_prev)
       /\ Val(vs.u).u_steer = Val(lf.steer_pid.u_prev)
       /\ lfcall.ret = Some(<<Val(vs.u).u_a, Val(vs.u).u_steer>>)

(* a step whose two commands differ and are nonzero *)
C8_Witness ==
  /\ StepReturned
  /\ Val(vs.u).u_a # Val(vs.u).u_steer
  /\ Val(vs.u).u_a # 0 /\ Val(vs.u).u_steer # 0
  /\ lfcall.ret = Some(<<Val(vs.u).u_a, Val(vs.u).u_steer>>)

(* ===================== further properties of class PID ================== *)

(* bounds in order: dt > 0 and no lower bound above its upper bound *)
OrderedConfig(c) ==
  /\ c.dt > 0
  /\ c.int_e_min <= c.int_e_max
  /\ (~IsNone(c.u_min) /\ ~IsNone(c.u_max)) => Val(c.u_min) <= Val(c.u_max)
  /\ (~IsNone(c.du_min) /\ ~IsNone(c.du_max)) => Val(c.du_min) <= Val(c.du_max)

(* C11: the initialized flag is true in every reachable state, and under a *)
(* configuration with dt > 0 and ordered bounds every solve call returns,  *)
(* with success = true in its diagnostics record.                          *)
C11_SolveSucceedsWhenValid ==
  /\ pid.initialized
  /\ (call.op = "solve" /\ OrderedConfig(pid))
       => (call.raised = "no" /\ call.success /\ ~IsNone(call.u))

(* a solve with derivative action, made after a reconfiguration *)
C11_Witness ==
  /\ call.op = "solve" /\ call.prev = "set_params" /\ OrderedConfig(pid)
  /\ pid.Kd # 0 /\ pid.de # 0
  /\ call.raised = "no" /\ call.success

(* an inclusive clamp to [lo, hi], each side applied only if it is set *)
Clamp(lo, hi, v) ==
  LET a == IF ~IsNone(hi) /\ v > Val(hi) THEN Val(hi) ELSE v
  IN  IF ~IsNone(lo) /\ a < Val(lo) THEN Val(lo) ELSE a

(* the output the specification gives for solve(x, arg) from loop state p: *)
(* rate limiting first, absolute saturation second                         *)
OutputFormula(p, x, arg) ==
  LET e    == x - p.x_ref
      de   == Quot(e - p.e, p.dt)
      ei   == Clamp(Some(p.int_e_min), Some(p.int_e_max), p.ei + e * p.dt)
      raw  == -(p.Kp * e + p.Ki * ei + p.Kd * de) + p.u_ref
      base == IF ~IsNone(arg) THEN Val(arg) ELSE Val(p.u_prev)
  IN  Clamp(p.u_min, p.u_max, base + Clamp(p.du_min, p.du_max, raw - base))

(* C13: under ordered bounds every solve returns                           *)
(* clampAbs(u_prev + clampRate(raw - u_prev)), so the output never leaves  *)
(* the hard bounds.                                                        *)
C13_RateThenAbsolute ==
  [][(call'.op = "solve" /\ call'.raised = "no" /\ OrderedConfig(pid))
     => /\ call'.u = Some(OutputFormula(pid, call'.x, call'.arg))
        /\ ~IsNone(pid.u_max) => Val(call'.u) <= Val(pid.u_max)
        /\ ~IsNone(pid.u_min) => Val(call'.u) >= Val(pid.u_min)]_vars

(* a rate-limited step down cut short by the lower hard bound: the output  *)
(* moved by less than the rate bound                                       *)
C13_Witness ==
  /\ Returned /\ OrderedConfig(pid)
  /\ ~IsNone(pid.du_min) /\ ~IsNone(pid.du_max) /\ ~IsNone(pid.u_min) /\ ~IsNone(pid.u_max)
  /\ call.u = pid.u_min
  /\ Val(call.u) - BasePoint < 0
  /\ Val(call.u) - BasePoint > Val(pid.du_min)

(* the parts of a PID object *)
LoopStateOf(p) == <<p.e, p.de, p.ei, p.u_prev>>
ReferencesOf(p) == <<p.x_ref, p.u_ref>>
SettingsOf(p) ==
  <<p.dt, p.Kp, p.Ki, p.Kd, p.int_e_max, p.int_e_min, p.u_max, p.u_min, p.du_max, p.du_min>>

(* C16: set_u_ref changes nothing but u_ref; set_params changes nothing    *)
(* but dt, gains and limits (loop state and both references stay);         *)
(* clear_errors leaves both references, the previous error and the         *)
(* previous output as they were.                                           *)
C16_Frames ==
  [][/\ call'.op = "set_u_ref"
          => /\ LoopStateOf(pid') = LoopStateOf(pid)
             /\ SettingsOf(pid') = SettingsOf(pid)
             /\ pid'.x_ref = pid.x_ref
             /\ pid'.u_ref = call'.x
     /\ call'.op = "set_params"
          => /\ LoopStateOf(pid') = LoopStateOf(pid)
             /\ ReferencesOf(pid') = ReferencesOf(pid)
     /\ call'.op = "clear_errors"
          => /\ ReferencesOf(pid') = ReferencesOf(pid)
             /\ pid'.e = pid.e
             /\ pid'.u_prev = pid.u_prev]_vars

(* a reconfiguration of a PID that carries a nonzero loop state and a      *)
(* nonzero input reference                                                 *)
C16_Witness ==
  /\ call.op = "set_params" /\ call.prev = "solve"
  /\ pid.x_ref # 0
  /\ pid.e # 0 /\ pid.ei # 0 /\ pid.u_prev # Some(0)

(* ============== further properties of class PIDLaneFollower ============= *)

(* the last step was handed a record whose velocity or position is missing *)
MalformedStep == lfcall.op = "step" /\ (IsNone(vs.v) \/ IsNone(vs.p))

LoopStateZero(p) == p.e = 0 /\ p.de = 0 /\ p.ei = 0 /\ p.u_prev = Some(0)

(* C14 as stated: right after set_x_ref or clear_errors on a loop the      *)
(* whole loop state of that loop is zero, and right after reset the whole  *)
(* loop state of both loops is zero.                                       *)
C14_LoopStateZeroAfterEachReset ==
  /\ \A name \in LoopNames :
       lfcall.op \in {SetXRefOp(name), ClearErrorsOp(name)} => LoopStateZero(Loop(lf, name))
  /\ lfcall.op = "reset" => (LoopStateZero(lf.steer_pid) /\ LoopStateZero(lf.speed_pid))

(* C14 as amended: set_x_ref zeroes the previous error and the accumulator *)
(* and keeps the derivative and the previous output; clear_errors zeroes   *)
(* the accumulator and the derivative and keeps the previous error and the *)
(* previous output; reset zeroes the whole loop state of both loops.       *)
C14_WhatEachResetZeroes ==
  [][/\ \A name \in LoopNames :
          LET old == Loop(lf, name)
              new == Loop(lf', name)
          IN  /\ lfcall'.op = SetXRefOp(name)
                   => /\ new.e = 0 /\ new.ei = 0
                      /\ new.de = old.de /\ new.u_prev = old.u_prev
              /\ lfcall'.op = ClearErrorsOp(name)
                   => /\ new.ei = 0 /\ new.de = 0
                      /\ new.e = old.e /\ new.u_prev = old.u_prev
     /\ lfcall'.op = "reset"
          => (LoopStateZero(lf'.steer_pid) /\ LoopStateZero(lf'.speed_pid))]_vars

(* clear_errors on the speed loop after a step: the accumulator and the    *)
(* derivative are zero, the previous error and the previous output are not *)
C14_Witness ==
  /\ lfcall.op = ClearErrorsOp("speed_pid") /\ lfcall.prev = "step"
  /\ lf.speed_pid.ei = 0 /\ lf.speed_pid.de = 0
  /\ lf.speed_pid.e # 0 /\ lf.speed_pid.u_prev # Some(0)

(* C15: in every reachable state of the lane follower the input reference  *)
(* of the steering loop is 0, so the error the steering loop stored in a   *)
(* step is 5*(lateral deviation - lateral offset reference) + 1*heading    *)
(* error.                                                                  *)
C15_SteeringReferenceIsZero ==
  /\ lf.steer_pid.x_ref = 0
  /\ StepReturned
       => lf.steer_pid.e = 5 * (Val(vs.p).x_tran - lf.lat_ref) + 1 * Val(vs.p).e_psi

(* C17: two runs that agree on the velocities give the same acceleration   *)
(* commands and the same speed loop, whatever their poses; two runs that   *)
(* agree on the poses give the same steering commands and the same         *)
(* steering loop, whatever their velocities.                               *)
C17_LoopsDoNotInterfere ==
  /\ twin.same = "velocity"
       => /\ lf.speed_pid = twin.lf.speed_pid
          /\ Val(vs.u).u_a = Val(twin.vs.u).u_a
          /\ (~IsNone(lfcall.ret) /\ ~IsNone(twin.ret))
               => Val(lfcall.ret)[1] = Val(twin.ret)[1]
  /\ twin.same = "pose"
       => /\ lf.steer_pid = twin.lf.steer_pid
          /\ Val(vs.u).u_steer = Val(twin.vs.u).u_steer
          /\ (~IsNone(lfcall.ret) /\ ~IsNone(twin.ret))
               => Val(lfcall.ret)[2] = Val(twin.ret)[2]

(* two runs with the same velocities whose steering loops and steering     *)
(* commands have come apart, after two steps                               *)
C17_Witness ==
  /\ twin.same = "velocity" /\ nstep >= 2
  /\ lfcall.op = "step" /\ lfcall.prev = "step" /\ lfcall.raised = "no"
  /\ lf.steer_pid # twin.lf.steer_pid
  /\ Val(vs.u).u_steer # Val(twin.vs.u).u_steer
  /\ lf.speed_pid = twin.lf.speed_pid
  /\ lf.speed_pid.u_prev # Some(0)

(* the outputs a rate limit with ordered bounds allows from a base point,  *)
(* cut to the hard bounds                                                  *)
RateWindow(p, base) ==
  { Clamp(p.u_min, p.u_max, base + d) : d \in Val(p.du_min)..Val(p.du_max) }
RateOrdered(p) ==
  ~IsNone(p.du_min) /\ ~IsNone(p.du_max) /\ Val(p.du_min) <= Val(p.du_max)

(* what a returning solve step leaves in the object *)
SolveCommits ==
  (call'.op = "solve" /\ call'.raised = "no")
    => /\ pid'.u_prev = call'.u
       /\ pid'.e = call'.x - pid.x_ref
       /\ pid'.de = Quot(pid'.e - pid.e, pid.dt)
       /\ pid.int_e_min <= pid.int_e_max
            => pid'.ei = Clamp(Some(pid.int_e_min), Some(pid.int_e_max),
                               pid.ei + pid'.e * pid.dt)

(* the base point a returning solve step limits the rate against *)
SolveBase ==
  (call'.op = "solve" /\ call'.raised = "no" /\ RateOrdered(pid))
    => /\ ~IsNone(call'.arg) => Val(call'.u) \in RateWindow(pid, Val(call'.arg))
       /\ IsNone(call'.arg) => Val(call'.u) \in RateWindow(pid, Val(pid.u_prev))
       /\ (IsNone(call'.arg) /\ Returned) => Val(call'.u) \in RateWindow(pid, Val(call.u))

(* C18: the stored previous output is 0 until the first solve; a solve     *)
(* limits the rate against the override if one is given and against the    *)
(* stored previous output otherwise; a returning solve stores its output,  *)
(* error, derivative and clamped accumulator, so a solve without override  *)
(* that follows a solve limits the rate against the output returned last.  *)
C18_BasePointAndCommit ==
  /\ [](call.op = "__init__" => pid.u_prev = Some(0))
  /\ [][SolveCommits /\ SolveBase]_vars

(* a second solve, without override, held by the rate limit to one rate    *)
(* step from the nonzero output of the first                               *)
C18_Witness ==
  /\ Returned /\ call.prev = "solve" /\ IsNone(call.arg)
  /\ RateOrdered(pid) /\ IsNone(pid.u_max)
  /\ call.old # Some(0)
  /\ Val(call.u) - Val(call.old) = Val(pid.du_max)
  /\ pid.u_prev = call.u /\ pid.de # 0 /\ pid.ei # 0

(* both pairs of bounds are set and each pair encloses 0 *)
BoundsEncloseZero(p) ==
  /\ ~IsNone(p.du_min) /\ ~IsNone(p.du_max) /\ ~IsNone(p.u_min) /\ ~IsNone(p.u_max)
  /\ Val(p.du_min) <= 0 /\ 0 <= Val(p.du_max)
  /\ Val(p.u_min) <= 0 /\ 0 <= Val(p.u_max)

(* C19: with both pairs of bounds set and enclosing 0, the stored previous *)
(* output (0, or the output returned last) stays within the hard bounds,   *)
(* and a solve without override returns an output that differs from it by  *)
(* at most max(|du_max|, |du_min|): the absolute saturation never adds to  *)
(* the change the rate limit allowed.                                      *)
C19_ChangePerCycleBounded ==
  BoundsEncloseZero(pid)
    => /\ Val(pid.u_min) <= Val(pid.u_prev) /\ Val(pid.u_prev) <= Val(pid.u_max)
       /\ (Returned /\ IsNone(call.arg))
            => Abs(Val(call.u) - Val(call.old))
                 <= maximum(Abs(Val(pid.du_max)), Abs(Val(pid.du_min)))

(* the second of two solves without override, stopped by the lower hard    *)
(* bound before it used up the rate step                                   *)
C19_Witness ==
  /\ BoundsEncloseZero(pid)
  /\ Returned /\ call.prev = "solve" /\ IsNone(call.arg)
  /\ call.old # Some(0)
  /\ call.u = pid.u_min
  /\ Val(call.u) # Val(call.old)
  /\ Abs(Val(call.u) - Val(call.old)) < Abs(Val(pid.du_min))

====
